---- MODULE Spec2Model ----
(***************************************************************************)
(* Indoor localization API (app/main.py, app/models.py, app/schemas.py).   *)
(*                                                                         *)
(* Three specifications over one state:                                    *)
(*   Spec        concurrent add_measurement requests on the database       *)
(*   SpecPredict one predict_room request on a database drawn from bounded *)
(*               sets                                                      *)
(*   SpecGetDb   the get_db session generator and its driver               *)
(*                                                                         *)
(* The helpers predict_room imports from utils (process_fingerprint_data,  *)
(* the three filters, prepare_data, handle_missing_values, ...) are not    *)
(* part of the available sources; they are modelled from the written       *)
(* specification (sections 4.1 - 4.6).                                     *)
(***************************************************************************)
EXTENDS Integers, Sequences, FiniteSets, TLC

VARIABLES rooms, measurements, routers, measurement_router,
          pc, req, loc, wrote,
          pred,
          gen

vars == <<rooms, measurements, routers, measurement_router,
          pc, req, loc, wrote, pred, gen>>

dbVars == <<rooms, measurements, routers, measurement_router>>
addVars == <<pc, req, loc, wrote>>

(***************************************************************************)
(* Generic helpers                                                         *)
(***************************************************************************)
Range(s) == {s[i] : i \in DOMAIN s}

RECURSIVE SeqSum(_)
SeqSum(s) == IF s = <<>> THEN 0 ELSE Head(s) + SeqSum(Tail(s))

RECURSIVE Flatten(_)
Flatten(ss) == IF ss = <<>> THEN <<>> ELSE Head(ss) \o Flatten(Tail(ss))

\* The first of the rows of a table whose index is in hits, << >> if there is
\* none: query(...).filter_by(...).first()
FirstRow(table, hits) ==
    IF hits = {} THEN <<>>
    ELSE <<table[CHOOSE i \in hits : \A j \in hits : i <= j]>>

(***************************************************************************)
(* Bounds                                                                  *)
(***************************************************************************)
\* measurements stored in the database a prediction reads
MaxMeas == 2
\* concurrent add_measurement requests
NumReq == 2

(***************************************************************************)
(* Rows of the four tables (models.py) and conversions                     *)
(***************************************************************************)
RoomRow(id, name) == [room_id |-> id, room_name |-> name]

MeasurementRow(id, ts, dev, room) ==
    [measurement_id |-> id, timestamp |-> ts, device_id |-> dev, room_id |-> room]

RouterRow(id, ssid, bssid) == [router_id |-> id, ssid |-> ssid, bssid |-> bssid]

MeasurementRouterRow(m, r, s) ==
    [measurement_id |-> m, router_id |-> r, signal_strength |-> s]

\* datetime.utcfromtimestamp(seconds): a calendar day and the second within it
utcfromtimestamp(ts) == [days |-> ts \div 86400, secs |-> ts % 86400]

(***************************************************************************)
(* predict_room: the inputs of the model                                   *)
(***************************************************************************)
RouterData(ssid, bssid, s) == [ssid |-> ssid, bssid |-> bssid, signal_strength |-> s]

\* Column order of mac_address_list: the bssids in sorted order
BssidOrder == <<"AA", "BB">>

\* The readings one stored measurement can carry: <<router_id, signal_strength>>
TrainReadings ==
    { << <<1, -40>>, <<2, -60>> >>,
      << <<1, -80>>, <<2, -45>> >>,
      << <<1, -40>> >>,
      << <<2, -45>> >>,
      << >> }

\* The live scans a request can carry (data.routers)
LiveScans ==
    { << >>,
      << RouterData("eduroam", "AA", -42), RouterData("guest", "BB", -58) >>,
      << RouterData("eduroam", "AA", -42) >> }

\* router_presence_threshold as a fraction num/den
Fraction(n, d) == [num |-> n, den |-> d]
Thresholds == {Fraction(0, 1), Fraction(1, 2), Fraction(1, 1)}

SupportedAlgorithms ==
    {"knn_sorensen", "knn_euclidean", "random_forest", "svm_linear", "svm_rbf"}
KnnAlgorithms == {"knn_sorensen", "knn_euclidean"}
Algorithms == SupportedAlgorithms \cup {"unknown_algo"}

\* k_value: drawn for the two nearest-neighbour algorithms, the schema
\* default otherwise (the other algorithms do not read it)
KValues(alg) == IF alg \in KnnAlgorithms THEN {1, 2} ELSE {5}

PredictData(l, ig, u, h, sel, t, a, k) ==
    [routers |-> l, ignore_measurements |-> ig,
     use_remove_unreceived_bssids |-> u,
     handle_missing_values_strategy |-> h,
     router_selection |-> sel,
     router_presence_threshold |-> t,
     value_scaling_strategy |-> "none",
     router_rssi_threshold |-> -100,
     algorithm |-> a, k_value |-> k]

\* Every setting of the filters and of the imputation, under the default
\* algorithm with k = 1
FilterRequests ==
    { PredictData(l, ig, u, h, sel, t, "knn_euclidean", 1) :
         l \in LiveScans, ig \in {<< >>, <<1>>}, u \in BOOLEAN,
         h \in {"use_received", "zero"}, sel \in {"all", "eduroam"},
         t \in Thresholds }

\* Every algorithm, with the network-name and rarity filters off
ClassifierRequests ==
    UNION { { PredictData(l, << >>, u, h, "all", Fraction(0, 1), a, k) :
                 l \in LiveScans \ {<< >>}, u \in BOOLEAN,
                 h \in {"use_received", "zero"}, k \in KValues(a) } :
            a \in Algorithms }

PredictRequests == FilterRequests \cup ClassifierRequests

(***************************************************************************)
(* utils, modelled from the specification                                  *)
(***************************************************************************)
\* The lowest possible signal value, used for a reading that is absent
WeakSignal == -100

\* process_received_data: the live scan keyed by bssid
process_received_data(rs) ==
    [b \in {rs[i].bssid : i \in DOMAIN rs} |->
        LET last == CHOOSE i \in DOMAIN rs :
                       /\ rs[i].bssid = b
                       /\ \A j \in DOMAIN rs : rs[j].bssid = b => j <= i
        IN  rs[last].signal_strength]

\* 4.1 FingerprintAggregator: one record per distinct measurement_id, in the
\* order of first appearance
RECURSIVE process_fingerprint_data(_)
process_fingerprint_data(result) ==
    IF result = <<>> THEN <<>>
    ELSE LET m    == Head(result).measurement_id
             mine == SelectSeq(result, LAMBDA r : r.measurement_id = m)
             rest == SelectSeq(result, LAMBDA r : r.measurement_id # m)
             bs   == {mine[i].bssid : i \in DOMAIN mine}
             row(b) == mine[CHOOSE i \in DOMAIN mine :
                              /\ mine[i].bssid = b
                              /\ \A j \in DOMAIN mine : mine[j].bssid = b => j <= i]
         IN  << [measurement_id |-> m,
                 room_id |-> Head(result).room_id,
                 readings |-> [b \in bs |->
                     [ssid |-> row(b).ssid,
                      signal_strength |-> row(b).signal_strength]]] >>
             \o process_fingerprint_data(rest)

Restrict(rec, keep) ==
    [rec EXCEPT !.readings = [b \in (DOMAIN rec.readings) \cap keep |-> rec.readings[b]]]

AllBssids(rs) == UNION {DOMAIN rs[i].readings : i \in DOMAIN rs}

\* 4.2 unseen filter
remove_unreceived_bssids(rs, received_data) ==
    [i \in DOMAIN rs |-> Restrict(rs[i], DOMAIN received_data)]

\* 4.2 network-name filter
remove_non_eduroam_bssids(rs) ==
    [i \in DOMAIN rs |->
        Restrict(rs[i], {b \in DOMAIN rs[i].readings : rs[i].readings[b].ssid = "eduroam"})]

Presence(rs, b) == Cardinality({i \in DOMAIN rs : b \in DOMAIN rs[i].readings})

\* presence fraction of b strictly below threshold: count/n < num/den
IsRare(rs, b, threshold) ==
    Presence(rs, b) * threshold.den < threshold.num * Len(rs)

\* 4.2 rarity filter
remove_rare_routers(rs, threshold) ==
    LET keep == {b \in AllBssids(rs) : ~IsRare(rs, b, threshold)}
    IN  [i \in DOMAIN rs |-> Restrict(rs[i], keep)]

\* A matrix cell: << >> is "missing", <<v>> a reading
Missing == << >>
Cell(v) == <<v>>

\* 4.3 FeatureMatrixBuilder
prepare_data(rs) ==
    LET mac == SelectSeq(BssidOrder, LAMBDA b : b \in AllBssids(rs))
    IN  [X |-> [i \in DOMAIN rs |->
                  [j \in DOMAIN mac |->
                      IF mac[j] \in DOMAIN rs[i].readings
                      THEN Cell(rs[i].readings[mac[j]].signal_strength)
                      ELSE Missing]],
         y |-> [i \in DOMAIN rs |-> rs[i].room_id],
         mac_address_list |-> mac]

prepare_received_data(received_data, mac) ==
    [j \in DOMAIN mac |->
        IF mac[j] \in DOMAIN received_data THEN Cell(received_data[mac[j]]) ELSE Missing]

\* 4.4 MissingValueImputer
handle_missing_values(X, mac, received_data, strategy) ==
    [i \in DOMAIN X |->
        [j \in DOMAIN X[i] |->
            IF X[i][j] # Missing THEN X[i][j]
            ELSE IF strategy = "use_received" /\ mac[j] \in DOMAIN received_data
                 THEN Cell(received_data[mac[j]])
                 ELSE Cell(WeakSignal)]]

MatrixSize(X) == IF X = <<>> THEN 0 ELSE Len(X) * Len(X[1])

\* 4.5 threshold: a cell weaker than the threshold, or not heard at all, is
\* raised to the threshold; the result is numeric
Clamp(c, thr) == IF c = Missing THEN thr ELSE IF c[1] < thr THEN thr ELSE c[1]

handle_router_rssi_threshold(X, X_new, thr) ==
    [X     |-> [i \in DOMAIN X |-> [j \in DOMAIN X[i] |-> Clamp(X[i][j], thr)]],
     X_new |-> [j \in DOMAIN X_new |-> Clamp(X_new[j], thr)]]

\* 4.5 scaling: 'none' is the identity, any other strategy shifts by the
\* weakest value seen
value_scaling(X, X_new, min_rssi_value, strategy) ==
    IF strategy = "none" THEN [X |-> X, X_new |-> X_new]
    ELSE [X     |-> [i \in DOMAIN X |-> [j \in DOMAIN X[i] |-> X[i][j] - min_rssi_value]],
          X_new |-> [j \in DOMAIN X_new |-> X_new[j] - min_rssi_value]]

Abs(n) == IF n < 0 THEN -n ELSE n

\* A fraction with a positive denominator
Norm(f) == IF f.den < 0 THEN Fraction(-f.num, -f.den) ELSE f
FracLeq(a, b) == a.num * b.den <= b.num * a.den
FracAdd(a, b) == Fraction(a.num * b.den + b.num * a.den, a.den * b.den)

RECURSIVE FracSum(_)
FracSum(fs) == IF fs = <<>> THEN Fraction(0, 1) ELSE FracAdd(Head(fs), FracSum(Tail(fs)))

RECURSIVE IsqrtStep(_, _)
IsqrtStep(n, r) ==
    LET r2 == (r + n \div r) \div 2
    IN  IF r2 >= r THEN r ELSE IsqrtStep(n, r2)

\* floor of the square root
Isqrt(n) == IF n = 0 THEN 0 ELSE IsqrtStep(n, n)

SquaredDistance(x, q) == SeqSum([j \in DOMAIN x |-> (x[j] - q[j]) * (x[j] - q[j])])

\* 4.6 Soerensen: 1 - 2*sum(min)/sum(x+y) = sum|x-y| / sum(x+y)
sorensen(x, q) ==
    LET den == SeqSum([j \in DOMAIN x |-> x[j] + q[j]])
    IN  IF den = 0 THEN Fraction(0, 1)
        ELSE Norm(Fraction(SeqSum([j \in DOMAIN x |-> Abs(x[j] - q[j])]), den))

\* The order of the rows by distance: the squared distance orders the rows
\* as the Euclidean distance does
DistanceKey(metric, x, q) ==
    IF metric = "sorensen" THEN sorensen(x, q) ELSE Fraction(SquaredDistance(x, q), 1)

\* The distance itself, added up in the vote's tie-break: the Euclidean
\* distance in hundredths, rounded down
Distance(metric, x, q) ==
    IF metric = "sorensen" THEN sorensen(x, q)
    ELSE Fraction(Isqrt(10000 * SquaredDistance(x, q)), 100)

Min2(a, b) == IF a < b THEN a ELSE b

\* The possible sets of the k nearest rows (rows at the same distance may
\* come in either order)
NearestSets(X, q, k, metric) ==
    {S \in SUBSET (DOMAIN X) :
        /\ Cardinality(S) = Min2(k, Len(X))
        /\ \A i \in S : \A j \in (DOMAIN X) \ S :
              FracLeq(DistanceKey(metric, X[i], q), DistanceKey(metric, X[j], q))}

\* The labels a vote among the neighbours S can return: the most votes, ties
\* broken by the smallest total distance
VoteWinners(X, q, y, S, metric) ==
    LET labels   == {y[i] : i \in S}
        votes(l) == Cardinality({i \in S : y[i] = l})
        top      == {l \in labels : \A m \in labels : votes(m) <= votes(l)}
        rowsOf(l) == SelectSeq([i \in DOMAIN X |-> i], LAMBDA i : i \in S /\ y[i] = l)
        total(l) == FracSum([n \in DOMAIN rowsOf(l) |-> Distance(metric, X[rowsOf(l)[n]], q)])
    IN  IF Cardinality(top) = 1 THEN top
        ELSE {l \in top : \A m \in top : FracLeq(total(l), total(m))}

\* 4.6 k-nearest-neighbour with uniform weights (the schema's default): the
\* labels it can predict
knn(X, q, y, k, metric) ==
    UNION {VoteWinners(X, q, y, S, metric) : S \in NearestSets(X, q, k, metric)}

\* 4.6 ensemble-tree and margin classifiers: trained on (X, y), they predict
\* one of the training labels
random_forest(X, q, y) == {y[i] : i \in DOMAIN y}
svm(X, q, y, kernel) == {y[i] : i \in DOMAIN y}

(***************************************************************************)
(* predict_room (main.py)                                                  *)
(***************************************************************************)
\* Lines 150-169: the rows of every measurement that is not ignored, joined
\* with its routers, in table order
Aggregate(data) ==
    LET ignored(m) == /\ data.ignore_measurements # <<>>
                      /\ m.measurement_id \in Range(data.ignore_measurements)
        rowsOf(m) ==
            LET mrs == SelectSeq(measurement_router,
                                 LAMBDA x : x.measurement_id = m.measurement_id)
            IN  [n \in DOMAIN mrs |->
                   LET router_info ==
                         FirstRow(routers, {i \in DOMAIN routers :
                                     routers[i].router_id = mrs[n].router_id})[1]
                   IN  [measurement_id |-> m.measurement_id,
                        timestamp |-> m.timestamp,
                        device_id |-> m.device_id,
                        room_id |-> m.room_id,
                        bssid |-> router_info.bssid,
                        ssid |-> router_info.ssid,
                        signal_strength |-> mrs[n].signal_strength]]
    IN  Flatten([i \in DOMAIN measurements |->
                    IF ignored(measurements[i]) THEN <<>> ELSE rowsOf(measurements[i])])

\* One entry of the filter log: the stage that ran, what it was given and
\* what it returned
Logged(stage, in, out) == [stage |-> stage, input |-> in, output |-> out]

\* Lines 173-174
UnseenStage(st, data) ==
    IF data.use_remove_unreceived_bssids
    THEN LET out == remove_unreceived_bssids(st.rooms, st.received_data)
         IN  [st EXCEPT !.rooms = out,
                        !.log = Append(@, Logged("remove_unreceived_bssids", st.rooms, out))]
    ELSE st

\* Lines 176-177
NetworkStage(st, data) ==
    IF data.router_selection = "eduroam"
    THEN LET out == remove_non_eduroam_bssids(st.rooms)
         IN  [st EXCEPT !.rooms = out,
                        !.log = Append(@, Logged("remove_non_eduroam_bssids", st.rooms, out))]
    ELSE st

\* A faulty variant of RarityStage: the filter is called and its result is not kept
RarityStageResultDropped(st, data) ==
    IF data.router_presence_threshold.num > 0
    THEN LET out == remove_rare_routers(st.rooms, data.router_presence_threshold)
         IN  [st EXCEPT !.log = Append(@, Logged("remove_rare_routers", st.rooms, out))]
    ELSE st

\* Lines 179-180
RarityStage(st, data) ==
    IF data.router_presence_threshold.num > 0
    THEN LET out == remove_rare_routers(st.rooms, data.router_presence_threshold)
         IN  [st EXCEPT !.rooms = out,
                        !.log = Append(@, Logged("remove_rare_routers", st.rooms, out))]
    ELSE st

\* A faulty variant of FilterChain: the rarity filter runs before the two others
FilterChainRarityFirst(st, data) ==
    NetworkStage(UnseenStage(RarityStage(st, data), data), data)

\* Lines 173-180
FilterChain(st, data) == RarityStage(NetworkStage(UnseenStage(st, data), data), data)

\* A faulty variant of TrainingEmpty: only the label vector is looked at
TrainingEmptyRowsOnly(X, y) == Len(y) = 0

\* Line 184: X.size == 0 or y.size == 0
TrainingEmpty(X, y) == MatrixSize(X) = 0 \/ Len(y) = 0

\* A faulty variant of ImputeStage: the request's strategy is not passed on
ImputeStageDefaultStrategy(X, mac, received_data, data) ==
    handle_missing_values(X, mac, received_data, "use_received")

\* Line 187
ImputeStage(X, mac, received_data, data) ==
    handle_missing_values(X, mac, received_data, data.handle_missing_values_strategy)

\* A faulty variant of QueryStage: the columns are the live scan's own bssids
QueryStageOwnColumns(received_data, mac) ==
    prepare_received_data(received_data,
                          SelectSeq(BssidOrder, LAMBDA b : b \in DOMAIN received_data))

\* Line 188
QueryStage(received_data, mac) == prepare_received_data(received_data, mac)

\* Line 189: the weakest value of both matrices
min_rssi_value(X, X_new) ==
    LET vals == {X[i][j][1] : i \in DOMAIN X, j \in DOMAIN X_new}
                \cup {X_new[j][1] : j \in {n \in DOMAIN X_new : X_new[n] # Missing}}
    IN  CHOOSE v \in vals : \A w \in vals : v <= w

\* A faulty variant of Classify: the two nearest-neighbour branches pass each other's
\* metric
ClassifyMetricsSwapped(data, X, X_new, y) ==
    LET bind(name, rs) == [bound |-> TRUE, stage |-> <<name>>, rooms |-> rs]
    IN  IF data.algorithm = "knn_sorensen"
        THEN bind("knn", knn(X, X_new, y, data.k_value, "euclidean"))
        ELSE IF data.algorithm = "knn_euclidean"
        THEN bind("knn", knn(X, X_new, y, data.k_value, "sorensen"))
        ELSE IF data.algorithm = "random_forest"
        THEN bind("random_forest", random_forest(X, X_new, y))
        ELSE IF data.algorithm = "svm_linear"
        THEN bind("svm", svm(X, X_new, y, "linear"))
        ELSE IF data.algorithm = "svm_rbf"
        THEN bind("svm", svm(X, X_new, y, "rbf"))
        ELSE [bound |-> FALSE, stage |-> <<>>, rooms |-> {}]

\* Lines 203-212: the branch taken binds predicted_room; no branch, no binding
Classify(data, X, X_new, y) ==
    LET bind(name, rs) == [bound |-> TRUE, stage |-> <<name>>, rooms |-> rs]
    IN  IF data.algorithm = "knn_sorensen"
        THEN bind("knn", knn(X, X_new, y, data.k_value, "sorensen"))
        ELSE IF data.algorithm = "knn_euclidean"
        THEN bind("knn", knn(X, X_new, y, data.k_value, "euclidean"))
        ELSE IF data.algorithm = "random_forest"
        THEN bind("random_forest", random_forest(X, X_new, y))
        ELSE IF data.algorithm = "svm_linear"
        THEN bind("svm", svm(X, X_new, y, "linear"))
        ELSE IF data.algorithm = "svm_rbf"
        THEN bind("svm", svm(X, X_new, y, "rbf"))
        ELSE [bound |-> FALSE, stage |-> <<>>, rooms |-> {}]

\* Lines 262-276
handle_get_room_name_by_id(room_id) ==
    LET room == FirstRow(rooms, {i \in DOMAIN rooms : rooms[i].room_id = room_id})
    IN  IF room = <<>> THEN "Unknown" ELSE room[1].room_name

\* A request that has not run
NoPrediction ==
    [status |-> "idle", data |-> <<>>, trace |-> <<>>, log |-> <<>>,
     received_data |-> <<>>, rooms0 |-> <<>>, rooms |-> <<>>,
     X0 |-> <<>>, y |-> <<>>, mac_address_list |-> <<>>,
     X |-> <<>>, X_new |-> <<>>, Xc |-> <<>>, Xc_new |-> <<>>,
     predicted_room |-> 0, room_name |-> ""]

LogStages(log) == [i \in DOMAIN log |-> log[i].stage]

\* Lines 124-223: the outcomes of one request. status is "400" (line 131),
\* "EmptyTrainingData" (line 185), "EmptyQueryData" (line 195),
\* "UnboundLocalError" (line 214: predicted_room was never bound) or "ok"
\* (line 223); trace lists the calls made, in order.
predict_room(data) ==
    IF data.routers = <<>>
    THEN {[NoPrediction EXCEPT !.status = "400", !.data = data]}
    ELSE
    LET received_data == process_received_data(data.routers)
        rooms0 == process_fingerprint_data(Aggregate(data))
        st == FilterChain([rooms |-> rooms0, received_data |-> received_data,
                           log |-> <<>>], data)
        pd == prepare_data(st.rooms)
        r1 == [NoPrediction EXCEPT
                 !.data = data, !.log = st.log,
                 !.received_data = st.received_data,
                 !.rooms0 = rooms0, !.rooms = st.rooms,
                 !.X0 = pd.X, !.y = pd.y, !.mac_address_list = pd.mac_address_list,
                 !.trace = <<"process_received_data", "query_measurements",
                             "process_fingerprint_data">>
                           \o LogStages(st.log) \o <<"prepare_data">>]
    IN  IF TrainingEmpty(pd.X, pd.y)
        THEN {[r1 EXCEPT !.status = "EmptyTrainingData"]}
        ELSE
        LET X     == ImputeStage(pd.X, pd.mac_address_list, st.received_data, data)
            X_new == QueryStage(st.received_data, pd.mac_address_list)
            c     == handle_router_rssi_threshold(X, X_new, data.router_rssi_threshold)
            sc    == value_scaling(c.X, c.X_new, min_rssi_value(X, X_new),
                                   data.value_scaling_strategy)
            r2    == [r1 EXCEPT
                        !.X = X, !.X_new = X_new, !.Xc = sc.X, !.Xc_new = sc.X_new,
                        !.trace = @ \o <<"handle_missing_values", "prepare_received_data",
                                         "handle_router_rssi_threshold", "value_scaling">>]
        IN  IF Len(sc.X_new) = 0
            THEN {[r2 EXCEPT !.status = "EmptyQueryData"]}
            ELSE
            LET cl == Classify(data, sc.X, sc.X_new, pd.y)
            IN  IF ~cl.bound
                THEN {[r2 EXCEPT !.status = "UnboundLocalError"]}
                ELSE {[r2 EXCEPT !.status = "ok",
                                 !.predicted_room = p,
                                 !.room_name = handle_get_room_name_by_id(p),
                                 !.trace = @ \o cl.stage \o <<"handle_get_room_name_by_id">>]
                        : p \in cl.rooms}

\* The request handler: one request, start to finish
Predict ==
    /\ pred.status = "idle"
    /\ \E data \in PredictRequests :
          \E r \in predict_room(data) : pred' = r
    /\ UNCHANGED <<dbVars, addVars, gen>>

(***************************************************************************)
(* The databases a prediction is drawn on                                  *)
(***************************************************************************)
Procs == 1 .. NumReq

IdleGen == [pc |-> "idle"]

StoredRooms == <<RoomRow(1, "101"), RoomRow(2, "102")>>
StoredRouters == <<RouterRow(1, "eduroam", "AA"), RouterRow(2, "guest", "BB")>>

InitPredict ==
    /\ rooms = StoredRooms
    /\ routers = StoredRouters
    /\ \E n \in 0 .. MaxMeas :
         \E samples \in [1 .. n -> {1, 2} \X TrainReadings] :
            /\ measurements =
                 [i \in 1 .. n |->
                     MeasurementRow(i, utcfromtimestamp(i), "d1", samples[i][1])]
            /\ measurement_router =
                 Flatten([i \in 1 .. n |->
                     [k \in DOMAIN samples[i][2] |->
                         MeasurementRouterRow(i, samples[i][2][k][1], samples[i][2][k][2])]])
    /\ pc = [p \in Procs |-> "idle"]
    /\ req = [p \in Procs |-> <<>>]
    /\ loc = [p \in Procs |-> <<>>]
    /\ wrote = [p \in Procs |-> {}]
    /\ pred = NoPrediction
    /\ gen = IdleGen

NextPredict == Predict

SpecPredict == InitPredict /\ [][NextPredict]_vars

(***************************************************************************)
(* Claims about predict_room, checked under SpecPredict                    *)
(***************************************************************************)
\* The request got past the check of line 129 and ran the pipeline
RanPipeline == pred.status \notin {"idle", "400"}

\* The request got past the check of line 184
PastEmptyCheck == pred.status \in {"ok", "UnboundLocalError", "EmptyQueryData"}

FilterStages ==
    {"remove_unreceived_bssids", "remove_non_eduroam_bssids", "remove_rare_routers"}

LaterStages ==
    {"handle_missing_values", "prepare_received_data", "handle_router_rssi_threshold",
     "value_scaling", "knn", "random_forest", "svm", "handle_get_room_name_by_id"}

\* C1: a request whose algorithm is none of the five supported names ends in
\* an unsupported-algorithm error, and no stage of the pipeline has run.
\* (Stated for the requests with usable training data; the others end in the
\* empty-training-data error of C2.)
C1_UnknownAlgorithmFailsFirst ==
    (/\ RanPipeline
     /\ pred.status # "EmptyTrainingData"
     /\ pred.data.algorithm \notin SupportedAlgorithms)
    => (pred.status = "UnsupportedAlgorithm" /\ pred.trace = <<>>)

\* C2: when the feature matrix has zero rows or zero columns the request
\* ends in the empty-training-data error, no later stage has run and no room
\* is predicted.
C2_EmptyTrainingStops ==
    (RanPipeline /\ (Len(pred.X0) = 0 \/ Len(pred.mac_address_list) = 0))
    => /\ pred.status = "EmptyTrainingData"
       /\ Range(pred.trace) \cap LaterStages = {}
       /\ pred.X = <<>> /\ pred.X_new = <<>>
       /\ pred.predicted_room = 0 /\ pred.room_name = ""

\* C2 witness: records were kept, the filters left them no column, and the
\* request ended in the error.
C2_Witness ==
    /\ pred.status = "EmptyTrainingData"
    /\ Len(pred.X0) > 0
    /\ Len(pred.mac_address_list) = 0
    /\ AllBssids(pred.rooms0) # {}

ExpectedFilters(d) ==
    (IF d.use_remove_unreceived_bssids THEN <<"remove_unreceived_bssids">> ELSE <<>>)
    \o (IF d.router_selection = "eduroam" THEN <<"remove_non_eduroam_bssids">> ELSE <<>>)
    \o (IF d.router_presence_threshold.num > 0 THEN <<"remove_rare_routers">> ELSE <<>>)

\* C3: exactly the enabled filter stages run, each once, in the order unseen,
\* network-name, rarity; each stage is given what the stage before returned
\* (a disabled stage passes the records on unchanged), so the rarity filter
\* sees only bssids the two other filters let through; the live scan is the
\* one the request carried.
C3_FilterOrder ==
    RanPipeline =>
      LET d   == pred.data
          log == pred.log
      IN  /\ LogStages(log) = ExpectedFilters(d)
          /\ SelectSeq(pred.trace, LAMBDA n : n \in FilterStages) = ExpectedFilters(d)
          /\ \A i \in DOMAIN log :
                log[i].input = (IF i = 1 THEN pred.rooms0 ELSE log[i - 1].output)
          /\ pred.rooms = (IF log = <<>> THEN pred.rooms0 ELSE log[Len(log)].output)
          /\ \A i \in DOMAIN log :
                log[i].stage = "remove_rare_routers" =>
                   \A n \in DOMAIN log[i].input :
                      \A b \in DOMAIN log[i].input[n].readings :
                         /\ d.use_remove_unreceived_bssids => b \in DOMAIN pred.received_data
                         /\ d.router_selection = "eduroam" =>
                               log[i].input[n].readings[b].ssid = "eduroam"
          /\ pred.received_data = process_received_data(d.routers)

\* C3 witness: all three stages ran and the rarity filter was given fewer
\* bssids than were stored.
C3_Witness ==
    /\ RanPipeline
    /\ Len(pred.log) = 3
    /\ AllBssids(pred.log[3].input) # AllBssids(pred.rooms0)
    /\ AllBssids(pred.log[3].input) # {}

\* What the rarity filter is given: the records as the stages before it
\* left them
RarityInput ==
    LET before == SelectSeq(pred.log, LAMBDA e : e.stage # "remove_rare_routers")
    IN  IF before = <<>> THEN pred.rooms0 ELSE before[Len(before)].output

\* C4: after the filters, each record holds exactly the bssids whose presence
\* fraction among the records given to the rarity filter is not below the
\* threshold, with their readings unchanged (so a threshold of 0 removes
\* nothing); with threshold 1 a bssid present in one of two records is no
\* column of mac_address_list.
C4_RarityFilter ==
    RanPipeline =>
      LET in == RarityInput
          t  == pred.data.router_presence_threshold
      IN  /\ Len(pred.rooms) = Len(in)
          /\ \A i \in DOMAIN in :
                /\ DOMAIN pred.rooms[i].readings =
                     {b \in DOMAIN in[i].readings :
                         Presence(in, b) * t.den >= t.num * Len(in)}
                /\ \A b \in DOMAIN pred.rooms[i].readings :
                      pred.rooms[i].readings[b] = in[i].readings[b]
                /\ pred.rooms[i].room_id = in[i].room_id
          /\ (t.num = 0) => pred.rooms = in
          /\ (t = Fraction(1, 1) /\ Len(in) = 2) =>
                \A b \in AllBssids(in) :
                   Presence(in, b) = 1 => b \notin Range(pred.mac_address_list)

\* C4 witness: threshold 1, two records, a bssid in only one of them, and
\* another bssid that stays.
C4_Witness ==
    /\ RanPipeline
    /\ pred.data.router_presence_threshold = Fraction(1, 1)
    /\ Len(RarityInput) = 2
    /\ \E b \in AllBssids(RarityInput) : Presence(RarityInput, b) = 1
    /\ pred.mac_address_list # <<>>

\* C5: mac_address_list has no duplicate, each of its bssids occurs in a
\* retained record, every row of the feature matrix has one cell per column
\* holding that record's reading or nothing, the labels follow the rows, and
\* the query vector has the same columns: the live reading where the bssid was
\* heard, missing otherwise (a bssid heard live that is no column is dropped).
C5_MatrixShape ==
    RanPipeline =>
      LET mac == pred.mac_address_list
      IN  /\ \A i, j \in DOMAIN mac : mac[i] = mac[j] => i = j
          /\ Range(mac) = AllBssids(pred.rooms)
          /\ Len(pred.X0) = Len(pred.rooms) /\ Len(pred.y) = Len(pred.X0)
          /\ \A i \in DOMAIN pred.X0 :
                /\ Len(pred.X0[i]) = Len(mac)
                /\ pred.y[i] = pred.rooms[i].room_id
                /\ \A j \in DOMAIN mac :
                      pred.X0[i][j] =
                         IF mac[j] \in DOMAIN pred.rooms[i].readings
                         THEN <<pred.rooms[i].readings[mac[j]].signal_strength>>
                         ELSE <<>>
          /\ PastEmptyCheck =>
                /\ Len(pred.X_new) = Len(mac)
                /\ \A j \in DOMAIN mac :
                      pred.X_new[j] =
                         IF \E n \in DOMAIN pred.data.routers :
                               pred.data.routers[n].bssid = mac[j]
                         THEN <<pred.received_data[mac[j]]>>
                         ELSE <<>>

\* C5 witness: a prediction where the live scan heard a bssid that is no
\* column and did not hear a bssid that is one.
C5_Witness ==
    /\ pred.status = "ok"
    /\ \E b \in DOMAIN pred.received_data : b \notin Range(pred.mac_address_list)
    /\ \E j \in DOMAIN pred.X_new : pred.X_new[j] = <<>>

\* C6: the imputed matrix has no missing cell; a cell that was present keeps
\* its value; a cell that was missing holds, under 'use_received', the live
\* reading of its column's bssid if the live scan heard it and the weak-signal
\* sentinel if not, and under any other strategy the sentinel.
C6_Imputation ==
    PastEmptyCheck =>
      /\ Len(pred.X) = Len(pred.X0)
      /\ \A i \in DOMAIN pred.X0 :
            /\ Len(pred.X[i]) = Len(pred.X0[i])
            /\ \A j \in DOMAIN pred.X0[i] :
                  LET b == pred.mac_address_list[j]
                  IN  /\ pred.X[i][j] # <<>>
                      /\ pred.X0[i][j] # <<>> => pred.X[i][j] = pred.X0[i][j]
                      /\ pred.X0[i][j] = <<>> =>
                            pred.X[i][j] =
                               IF /\ pred.data.handle_missing_values_strategy = "use_received"
                                  /\ b \in DOMAIN pred.received_data
                               THEN <<pred.received_data[b]>>
                               ELSE <<WeakSignal>>

\* C6 witness: under 'use_received', one missing cell took the live reading
\* and another the sentinel.
C6_Witness ==
    /\ pred.status = "ok"
    /\ pred.data.handle_missing_values_strategy = "use_received"
    /\ \E i \in DOMAIN pred.X0 : \E j \in DOMAIN pred.X0[i] :
          /\ pred.X0[i][j] = <<>>
          /\ pred.mac_address_list[j] \in DOMAIN pred.received_data
    /\ \E i \in DOMAIN pred.X0 : \E j \in DOMAIN pred.X0[i] :
          /\ pred.X0[i][j] = <<>>
          /\ pred.X[i][j] = <<WeakSignal>>

\* x is at most as far from q as z is, under the algorithm's metric
AtMostAsFar(alg, x, z, q) ==
    IF alg = "knn_euclidean"
    THEN SquaredDistance(x, q) <= SquaredDistance(z, q)
    ELSE FracLeq(sorensen(x, q), sorensen(z, q))

\* Scenario A: rooms 101 {AA:-40, BB:-60} and 102 {AA:-80, BB:-45}, live scan
\* {AA:-42, BB:-58}, knn_euclidean, k = 1, no filter, no scaling
ScenarioA ==
    /\ pred.status # "idle"
    /\ Len(pred.rooms0) = 2
    /\ \E i, j \in {1, 2} :
          /\ handle_get_room_name_by_id(pred.rooms0[i].room_id) = "101"
          /\ handle_get_room_name_by_id(pred.rooms0[j].room_id) = "102"
          /\ [b \in DOMAIN pred.rooms0[i].readings |->
                 pred.rooms0[i].readings[b].signal_strength] = ("AA" :> -40 @@ "BB" :> -60)
          /\ [b \in DOMAIN pred.rooms0[j].readings |->
                 pred.rooms0[j].readings[b].signal_strength] = ("AA" :> -80 @@ "BB" :> -45)
    /\ pred.received_data = ("AA" :> -42 @@ "BB" :> -58)
    /\ pred.data.algorithm = "knn_euclidean" /\ pred.data.k_value = 1
    /\ pred.log = <<>>
    /\ pred.data.value_scaling_strategy = "none"

\* C7: with k = 1, both nearest-neighbour algorithms predict the label of a
\* training row that no row is closer to the query vector than (of rows at the
\* same smallest distance, one of their labels: each has the same distance
\* sum); in scenario A the prediction is room 101.
C7_NearestNeighbour ==
    /\ (/\ pred.status = "ok"
        /\ pred.data.algorithm \in KnnAlgorithms
        /\ pred.data.k_value = 1)
       => \E i \in DOMAIN pred.Xc :
             /\ pred.y[i] = pred.predicted_room
             /\ \A j \in DOMAIN pred.Xc :
                   AtMostAsFar(pred.data.algorithm, pred.Xc[i], pred.Xc[j], pred.Xc_new)
    /\ ScenarioA => pred.status = "ok" /\ pred.room_name = "101"

\* C7 witness: scenario A, answered with room 101.
C7_Witness == ScenarioA /\ pred.room_name = "101"

(***************************************************************************)
(* add_measurement (main.py lines 62-121): concurrent requests, one step   *)
(* per database statement; a query reads the rows committed so far         *)
(***************************************************************************)
MeasurementData(room, dev, ts, rs) ==
    [room_name |-> room, device_id |-> dev, timestamp |-> ts, routers |-> rs]

ScanAA == << RouterData("eduroam", "AA", -40) >>
ScanSkipBB == << RouterData("guest", "", -50), RouterData("guest", "BB", -60) >>
ScanTwiceAA == << RouterData("eduroam", "AA", -40), RouterData("eduroam", "AA", -41) >>

\* The request bodies: complete ones, and one for each way of being incomplete
AddRequests ==
    { MeasurementData(r, "d1", t, l) :
         r \in {"101", "102"}, t \in {1, 86401}, l \in {ScanAA, ScanSkipBB} }
    \cup { MeasurementData("101", "d1", 1, ScanTwiceAA),
           MeasurementData("", "d1", 1, ScanAA),
           MeasurementData("101", "", 1, ScanAA),
           MeasurementData("101", "d1", 0, ScanAA),
           MeasurementData("101", "d1", 1, << >>) }

NoLocals ==
    [room_id |-> 0, timestamp_obj |-> <<>>, measurement_id |-> 0, i |-> 0,
     pending |-> <<>>]

\* The primary key of measurement_router: (measurement_id, router_id)
KeyOf(mr) == <<mr.measurement_id, mr.router_id>>

\* Flushing the pending measurement_router rows breaks the primary key
PendingConflict(pending) ==
    \/ \E i, j \in DOMAIN pending : i # j /\ KeyOf(pending[i]) = KeyOf(pending[j])
    \/ \E i \in DOMAIN pending : \E n \in DOMAIN measurement_router :
          KeyOf(pending[i]) = KeyOf(measurement_router[n])

\* Lines 64-72: the request arrives; a body with an empty field is refused
Start(p) ==
    /\ pc[p] = "idle"
    /\ \E data \in AddRequests :
          /\ req' = [req EXCEPT ![p] = data]
          /\ pc' = [pc EXCEPT ![p] =
                IF \/ data.room_name = "" \/ data.device_id = ""
                   \/ data.timestamp = 0 \/ data.routers = <<>>
                THEN "r400" ELSE "find_room"]
    /\ loc' = [loc EXCEPT ![p] = NoLocals]
    /\ UNCHANGED <<dbVars, wrote, pred, gen>>

\* Lines 74-75
FindRoom(p) ==
    /\ pc[p] = "find_room"
    /\ LET room == FirstRow(rooms, {i \in DOMAIN rooms : rooms[i].room_name = req[p].room_name})
       IN  IF room = <<>>
           THEN /\ pc' = [pc EXCEPT ![p] = "insert_room"]
                /\ loc' = loc
           ELSE /\ pc' = [pc EXCEPT ![p] = "find_measurement"]
                /\ loc' = [loc EXCEPT ![p].room_id = room[1].room_id]
    /\ UNCHANGED <<dbVars, req, wrote, pred, gen>>

\* Lines 76-79: room_name is unique (models.py line 18); a second insert of
\* the name fails the commit
InsertRoom(p) ==
    /\ pc[p] = "insert_room"
    /\ IF \E n \in DOMAIN rooms : rooms[n].room_name = req[p].room_name
       THEN /\ pc' = [pc EXCEPT ![p] = "r500"]
            /\ UNCHANGED <<rooms, loc, wrote>>
       ELSE /\ rooms' = Append(rooms, RoomRow(Len(rooms) + 1, req[p].room_name))
            /\ loc' = [loc EXCEPT ![p].room_id = Len(rooms) + 1]
            /\ wrote' = [wrote EXCEPT ![p] = @ \cup {"rooms"}]
            /\ pc' = [pc EXCEPT ![p] = "find_measurement"]
    /\ UNCHANGED <<measurements, routers, measurement_router, req, pred, gen>>

\* Lines 82-86
FindMeasurement(p) ==
    /\ pc[p] = "find_measurement"
    /\ LET timestamp_obj == utcfromtimestamp(req[p].timestamp)
           existing_measurement ==
              FirstRow(measurements,
                       {i \in DOMAIN measurements :
                           /\ measurements[i].device_id = req[p].device_id
                           /\ measurements[i].timestamp = timestamp_obj})
       IN  /\ loc' = [loc EXCEPT ![p].timestamp_obj = timestamp_obj]
           /\ pc' = [pc EXCEPT ![p] =
                 IF existing_measurement # <<>> THEN "r409" ELSE "insert_measurement"]
    /\ UNCHANGED <<dbVars, req, wrote, pred, gen>>

\* Lines 88-95: no constraint of the measurements table (models.py lines
\* 24-32) refuses the row
InsertMeasurement(p) ==
    /\ pc[p] = "insert_measurement"
    /\ measurements' = Append(measurements,
          MeasurementRow(Len(measurements) + 1, loc[p].timestamp_obj,
                         req[p].device_id, loc[p].room_id))
    /\ loc' = [loc EXCEPT ![p].measurement_id = Len(measurements) + 1, ![p].i = 1]
    /\ wrote' = [wrote EXCEPT ![p] = @ \cup {"measurements"}]
    /\ pc' = [pc EXCEPT ![p] = "router_loop"]
    /\ UNCHANGED <<rooms, routers, measurement_router, req, pred, gen>>

\* Lines 97-106 and 112-117: the next router of the request; an entry without
\* bssid is skipped, a known router gets its reading added to the session
RouterLoop(p) ==
    /\ pc[p] = "router_loop"
    /\ IF loc[p].i > Len(req[p].routers)
       THEN /\ pc' = [pc EXCEPT ![p] = "final_commit"]
            /\ loc' = loc
       ELSE LET router_data == req[p].routers[loc[p].i]
                router == FirstRow(routers, {n \in DOMAIN routers : routers[n].bssid = router_data.bssid})
            IN  IF router_data.bssid = ""
                THEN /\ loc' = [loc EXCEPT ![p].i = @ + 1]
                     /\ pc' = pc
                ELSE IF router = <<>>
                THEN /\ pc' = [pc EXCEPT ![p] = "insert_router"]
                     /\ loc' = loc
                ELSE /\ loc' = [loc EXCEPT
                           ![p].pending = Append(@,
                               MeasurementRouterRow(loc[p].measurement_id,
                                                    router[1].router_id,
                                                    router_data.signal_strength)),
                           ![p].i = @ + 1]
                     /\ pc' = pc
    /\ UNCHANGED <<dbVars, req, wrote, pred, gen>>

\* Lines 107-117: the commit writes the new router and the readings added so
\* far; bssid is unique (models.py line 39)
InsertRouter(p) ==
    /\ pc[p] = "insert_router"
    /\ LET router_data == req[p].routers[loc[p].i]
       IN  IF \/ \E n \in DOMAIN routers : routers[n].bssid = router_data.bssid
              \/ PendingConflict(loc[p].pending)
           THEN /\ pc' = [pc EXCEPT ![p] = "r500"]
                /\ loc' = [loc EXCEPT ![p].pending = <<>>]
                /\ UNCHANGED <<routers, measurement_router, wrote>>
           ELSE /\ routers' = Append(routers,
                      RouterRow(Len(routers) + 1, router_data.ssid, router_data.bssid))
                /\ measurement_router' = measurement_router \o loc[p].pending
                /\ wrote' = [wrote EXCEPT ![p] =
                      @ \cup {"routers"}
                        \cup (IF loc[p].pending = <<>> THEN {} ELSE {"measurement_router"})]
                /\ loc' = [loc EXCEPT
                      ![p].pending = << MeasurementRouterRow(loc[p].measurement_id,
                                                             Len(routers) + 1,
                                                             router_data.signal_strength) >>,
                      ![p].i = @ + 1]
                /\ pc' = [pc EXCEPT ![p] = "router_loop"]
    /\ UNCHANGED <<rooms, measurements, req, pred, gen>>

\* Lines 119-121
FinalCommit(p) ==
    /\ pc[p] = "final_commit"
    /\ IF PendingConflict(loc[p].pending)
       THEN /\ pc' = [pc EXCEPT ![p] = "r500"]
            /\ UNCHANGED <<measurement_router, wrote>>
       ELSE /\ measurement_router' = measurement_router \o loc[p].pending
            /\ wrote' = [wrote EXCEPT ![p] =
                  @ \cup (IF loc[p].pending = <<>> THEN {} ELSE {"measurement_router"})]
            /\ pc' = [pc EXCEPT ![p] = "done"]
    /\ loc' = [loc EXCEPT ![p].pending = <<>>]
    /\ UNCHANGED <<rooms, measurements, routers, req, pred, gen>>

add_measurement(p) ==
    \/ Start(p)
    \/ FindRoom(p)
    \/ InsertRoom(p)
    \/ FindMeasurement(p)
    \/ InsertMeasurement(p)
    \/ RouterLoop(p)
    \/ InsertRouter(p)
    \/ FinalCommit(p)

Init ==
    /\ rooms = <<>>
    /\ measurements = <<>>
    /\ routers = <<>>
    /\ measurement_router = <<>>
    /\ pc = [p \in Procs |-> "idle"]
    /\ req = [p \in Procs |-> <<>>]
    /\ loc = [p \in Procs |-> NoLocals]
    /\ wrote = [p \in Procs |-> {}]
    /\ pred = NoPrediction
    /\ gen = IdleGen

Next == \E p \in Procs : add_measurement(p)

Spec == Init /\ [][Next]_vars

(***************************************************************************)
(* Claims about add_measurement, checked under Spec                        *)
(***************************************************************************)
\* C8: no two stored measurements share the same (device_id, timestamp), also
\* when the steps of two requests interleave.
C8_UniqueDeviceTimestamp ==
    \A i, j \in DOMAIN measurements :
       (/\ measurements[i].device_id = measurements[j].device_id
        /\ measurements[i].timestamp = measurements[j].timestamp) => i = j

\* C9: a request answered 400 or 409 has written to no table.
C9_RejectedWritesNothing ==
    \A p \in Procs : pc[p] \in {"r400", "r409"} => wrote[p] = {}

(***************************************************************************)
(* get_db (main.py lines 33-52): the generator, and the dependency         *)
(* machinery that drives it                                                *)
(*                                                                         *)
(* gen.pc is the generator's position: "try" (line 40), "yielded" (line    *)
(* 41, suspended), "except" (line 43), "sleep" (line 46), "finally" (line  *)
(* 50) and, once it has ended, "returned", "raised" or "closed".           *)
(* gen.sessions holds one entry per session opened, "open" or "closed";    *)
(* gen.db is the variable db (0 for None, else the session's number).      *)
(***************************************************************************)
\* retries, line 34
Retries == 5

StartedGen ==
    [pc |-> "try", attempt |-> 0, db |-> 0, sessions |-> <<>>, yields |-> 0,
     thrown |-> FALSE, after |-> "", error |-> "", failures |-> 0, log |-> <<>>]

GenEnded == gen.pc \in {"returned", "raised", "closed"}

\* The dependency is entered: the first next() runs lines 34-38
GenStart ==
    /\ gen.pc = "idle"
    /\ gen' = StartedGen
    /\ UNCHANGED <<dbVars, addVars, pred>>

\* Lines 40-41: SessionLocal() returns a session, which is yielded
OpenSession ==
    /\ gen.pc = "try"
    /\ gen' = [gen EXCEPT !.pc = "yielded",
                          !.sessions = Append(@, "open"),
                          !.db = Len(gen.sessions) + 1,
                          !.yields = @ + 1]
    /\ UNCHANGED <<dbVars, addVars, pred>>

\* Line 40: SessionLocal() raises OperationalError; db keeps its old value
OpenFails ==
    /\ gen.pc = "try"
    /\ gen' = [gen EXCEPT !.pc = "except", !.error = "OperationalError",
                          !.failures = @ + 1]
    /\ UNCHANGED <<dbVars, addVars, pred>>

\* The request is done: the generator is resumed and reaches break (line 42)
Resume ==
    /\ gen.pc = "yielded" /\ ~gen.thrown
    /\ gen' = [gen EXCEPT !.pc = "finally", !.after = "break"]
    /\ UNCHANGED <<dbVars, addVars, pred>>

\* The request raised OperationalError, which is thrown in at the yield
ThrowOperationalError ==
    /\ gen.pc = "yielded" /\ ~gen.thrown
    /\ gen' = [gen EXCEPT !.pc = "except", !.thrown = TRUE,
                          !.error = "OperationalError", !.failures = @ + 1]
    /\ UNCHANGED <<dbVars, addVars, pred>>

\* The exceptions the two handlers raise besides OperationalError: lines 72,
\* 86 and 131 (HTTPException), 195 (ValueError), 214 (UnboundLocalError) and a
\* commit that breaks a unique constraint (IntegrityError)
HandlerErrors == {"HTTPException", "ValueError", "UnboundLocalError", "IntegrityError"}

\* The request raised another exception, thrown in at the yield: no except
\* clause takes it
ThrowOther ==
    /\ gen.pc = "yielded" /\ ~gen.thrown
    /\ \E e \in HandlerErrors :
          gen' = [gen EXCEPT !.pc = "finally", !.after = "raise", !.thrown = TRUE,
                             !.error = e]
    /\ UNCHANGED <<dbVars, addVars, pred>>

\* The generator yielded again after an exception was thrown in: the context
\* manager gives up on it ("generator didn't stop after throw()") and the
\* suspended generator is closed when it is finalized
Close ==
    /\ gen.pc = "yielded" /\ gen.thrown
    /\ gen' = [gen EXCEPT !.pc = "finally", !.after = "exit",
                          !.error = "GeneratorExit"]
    /\ UNCHANGED <<dbVars, addVars, pred>>

\* Lines 43-45 and 47-49: the warning, or after the last attempt the error
\* and the re-raise
Except ==
    /\ gen.pc = "except"
    /\ IF gen.attempt < Retries - 1
       THEN gen' = [gen EXCEPT !.pc = "sleep",
                               !.log = Append(@, <<"warning", gen.attempt + 1>>)]
       ELSE gen' = [gen EXCEPT !.pc = "finally", !.after = "raise",
                               !.log = Append(@, <<"error", Retries>>)]
    /\ UNCHANGED <<dbVars, addVars, pred>>

\* Line 46: time.sleep(delay) returns
Sleep ==
    /\ gen.pc = "sleep"
    /\ gen' = [gen EXCEPT !.pc = "finally", !.after = "next"]
    /\ UNCHANGED <<dbVars, addVars, pred>>

CloseSession(sessions, db) ==
    IF db # 0 THEN [sessions EXCEPT ![db] = "closed"] ELSE sessions

\* Lines 50-52, and where control goes from there: the next attempt of the
\* loop, the end of the generator, or the exception going on to the caller
Finally ==
    /\ gen.pc = "finally"
    /\ gen' = [gen EXCEPT
          !.sessions = CloseSession(gen.sessions, gen.db),
          !.pc = IF gen.after = "next" THEN "try"
                 ELSE IF gen.after = "break" THEN "returned"
                 ELSE IF gen.after = "raise" THEN "raised"
                 ELSE "closed",
          !.attempt = IF gen.after = "next" THEN @ + 1 ELSE @,
          !.error = IF gen.after = "next" THEN "" ELSE @]
    /\ UNCHANGED <<dbVars, addVars, pred>>

InitGetDb ==
    /\ rooms = <<>>
    /\ measurements = <<>>
    /\ routers = <<>>
    /\ measurement_router = <<>>
    /\ pc = [p \in Procs |-> "idle"]
    /\ req = [p \in Procs |-> <<>>]
    /\ loc = [p \in Procs |-> NoLocals]
    /\ wrote = [p \in Procs |-> {}]
    /\ pred = NoPrediction
    /\ gen = IdleGen

get_db ==
    \/ GenStart
    \/ OpenSession
    \/ OpenFails
    \/ Resume
    \/ ThrowOperationalError
    \/ ThrowOther
    \/ Close
    \/ Except
    \/ Sleep
    \/ Finally

SpecGetDb == InitGetDb /\ [][get_db]_vars

(***************************************************************************)
(* Claim about get_db, checked under SpecGetDb                             *)
(***************************************************************************)
AllSessionsClosed == \A n \in DOMAIN gen.sessions : gen.sessions[n] = "closed"

\* C10: in every run of get_db at most 5 sessions are opened, a session is
\* yielded at most once, every session opened is closed before the next
\* attempt starts and before get_db ends, and after a fifth consecutive
\* OperationalError the error goes on to the caller.
C10_GetDbRun ==
    gen.pc # "idle" =>
       /\ Len(gen.sessions) <= Retries
       /\ gen.yields <= 1
       /\ (gen.pc = "try" \/ GenEnded) => AllSessionsClosed
       /\ (GenEnded /\ gen.failures = Retries) =>
             (gen.pc = "raised" /\ gen.error = "OperationalError")

====
